---- MODULE Spec2Model ----
(***************************************************************************)
(* The field-dependency trigger engine of the recruiting wizard.           *)
(*                                                                         *)
(* TriggerEngine keeps a directed graph of field keys (an nx.DiGraph) and  *)
(* a registry key -> processor.  notify_change(updated_key, state) computes*)
(* the descendants of updated_key and calls the processor of each one.     *)
(*                                                                         *)
(* Two variants of notify_change exist in the repository:                  *)
(*   "logic": src/logic/trigger_engine.py (and, line for line the same,    *)
(*            src/src/logic/trigger_engine.py): iterates the descendant    *)
(*            set, a Python set of str, in the set's own order;            *)
(*   "topo" : src/trigger_engine.py: returns early when there is no        *)
(*            descendant, else walks nx.topological_sort of the WHOLE      *)
(*            graph and dispatches the nodes that are descendants.         *)
(* The registration methods are the same in all three files.               *)
(***************************************************************************)
EXTENDS Naturals, Sequences, FiniteSets

\* ------------------------------------------------------------------ inputs

\* Field keys the callers use.
Keys == {"A", "B", "C", "D"}

\* The (source, target) pairs the callers register: the diamond A->B, A->C,
\* B->D, C->D, the back edge D->B (a cycle B->D->B below A) and the
\* self-loop C->C.
Pairs ==
    { <<"A", "B">>, <<"A", "C">>, <<"B", "D">>, <<"C", "D">>,
      <<"D", "B">>, <<"C", "C">> }

\* The keys the callers bind processors to: A is a field the user edits (no
\* pair leads to it), B, C and D are the fields computed from others.
ProcKeys == {"B", "C", "D"}

\* Processors the callers register; a key's first processor is "f" and "g"
\* is the one registered over it.
Procs == {"f", "g"}

\* dict.get's None.
NoProc == "None"

\* At most this many edges are registered.
MaxEdges == 5

\* At most this many keys get their processor replaced.
MaxRebinds == 1

\* register_dependencies is handed at most this many pairs.
MaxBulk == 3

\* build_default_graph runs at most this often on one engine.
MaxBuilds == 2

\* The state handed to notify_change has at most this many fields filled.
MaxFilled == 2

\* The processors are checked on calls for keys with at most this many keys
\* below them.
MaxAffected == 2

\* The state mapping a caller hands to notify_change: the list the
\* processors append their key to, empty on entry.
EntryState == << >>

Variants == {"logic", "topo"}

VARIABLES
    variant,        \* which file's notify_change this engine runs
    graph,          \* self.graph: [nodes, edges], edges[<<u, v>>] = stored entries
    processors,     \* self._processors: key -> processor or NoProc
    registered,     \* history: per key, the processors passed to register_processor
    reRegistered,   \* history: register_dependency was repeated on an existing edge
    pc,             \* "idle" | "bfs" | "loop" | "toposort" | "done"
    updated_key,    \* argument of the running notify_change
    visited,        \* nx.descendants: nodes the search has seen
    frontier,       \* nx.descendants: nodes whose successors are looked at next
    affected,       \* the descendants found so far
    todo,           \* nodes the for loop has not reached yet
    calls,          \* history: <<key, processor, outcome, state found, answer>> per invocation
    state,          \* the caller's state: the list the processors append to
    err,            \* what the call raised: "none" or the exception
    bulk_given,     \* history: the pairs handed to register_dependencies
    builds,         \* history: how often build_default_graph ran on the engine
    ui,             \* which file's wizard runs
    wizard_step,    \* st.session_state["wizard_step"]
    step,           \* the step the last script run rendered (0: none yet)
    wpc,            \* "script": a script run is due | "page": the page waits
    clicked,        \* the button whose click started the script run that is due
    trail,          \* history: the clicks on the wizard's buttons
    session_state,  \* st.session_state: [fields, trigger_engine]
    retry           \* the running call_with_retry

engineVars == <<variant, graph, processors, registered, reRegistered>>
callVars == <<pc, updated_key, visited, frontier, affected, todo, calls, state, err>>
\* What the engine's own methods never touch.
wizVars == <<ui, wizard_step, step, wpc, clicked, trail>>
hostVars == <<session_state, retry>>
extVars == <<bulk_given, builds, wizVars, hostVars>>
vars == <<variant, graph, processors, registered, reRegistered,
          pc, updated_key, visited, frontier, affected, todo, calls, state, err,
          bulk_given, builds, ui, wizard_step, step, wpc, clicked, trail,
          session_state, retry>>

\* -------------------------------------------------------------- wizard step

\* components/wizard.py (Next, Home, Back) and vacalyser/components/wizard.py
\* (Next, Back).
WizardFiles == {"components", "vacalyser"}

\* A value of st.session_state["wizard_step"]: an int, a str that int()
\* parses to n, a str it does not parse, or None (also: no such key).
IntValue(n) == [kind |-> "int", n |-> n]

\* No session is open and no call_with_retry runs.
NoSession == [fields |-> << >>, trigger_engine |-> 0]
NoRetry == [file |-> "none", max_attempts |-> 0, attempt |-> 0,
            tried |-> << >>, pc |-> "none"]
NoHost ==
    /\ session_state = NoSession
    /\ retry = NoRetry

\* No wizard is running.
NoWizard ==
    /\ ui = "components"
    /\ wizard_step = IntValue(1)
    /\ step = 0
    /\ wpc = "script"
    /\ clicked = "none"
    /\ trail = << >>

\* ------------------------------------------------------------------- graph

AllPairs == Keys \X Keys

EmptyGraph == [nodes |-> {}, edges |-> [p \in AllPairs |-> 0]]

HasEdge(g, u, v) == g.edges[<<u, v>>] > 0

EdgeSet(g) == {p \in DOMAIN g.edges : g.edges[p] > 0}

Successors(g, n) == {m \in g.nodes : HasEdge(g, n, m)}

SuccessorsOf(g, S) == UNION {Successors(g, n) : n \in S}

RECURSIVE Closure(_, _, _)
Closure(g, S, k) ==
    IF k = 0 THEN S ELSE Closure(g, S \cup SuccessorsOf(g, S), k - 1)

\* The nodes reachable from x by one or more edges (x itself when x lies on
\* a cycle).
ReachPlus(g, x) == Closure(g, Successors(g, x), Cardinality(g.nodes))

\* DiGraph.add_node guarded by `if key not in self.graph`.
AddNode(g, key) ==
    IF key \in g.nodes THEN g ELSE [g EXCEPT !.nodes = @ \cup {key}]

\* A graph type that stores parallel edges (one entry per add_edge call).
AddEdgeParallel(g, u, v) ==
    [g EXCEPT !.edges[<<u, v>>] = @ + 1]

\* An add_edge that replaces the successors of u: self._succ[u] = {v: {}}.
AddEdgeOverwrite(g, u, v) ==
    [g EXCEPT !.edges = [p \in DOMAIN g.edges |->
                            IF p = <<u, v>> THEN 1
                            ELSE IF p[1] = u THEN 0 ELSE g.edges[p]]]

\* DiGraph.add_edge: self._succ[u][v] = datadict, one entry per (u, v).
AddEdge(g, u, v) ==
    [g EXCEPT !.edges[<<u, v>>] = 1]

\* ------------------------------------------------------------ construction

Init ==
    /\ variant \in Variants
    /\ graph = EmptyGraph
    /\ processors = [k \in Keys |-> NoProc]
    /\ registered = [k \in Keys |-> << >>]
    /\ reRegistered = FALSE
    /\ pc = "idle"
    /\ updated_key = NoProc
    /\ visited = {}
    /\ frontier = {}
    /\ affected = {}
    /\ todo = {}
    /\ calls = << >>
    /\ state = EntryState
    /\ err = "none"
    /\ bulk_given = << >>
    /\ builds = 0
    /\ NoWizard
    /\ NoHost

\* ------------------------------------------------------------ registration

register_node(key) ==
    /\ pc = "idle"
    /\ graph' = AddNode(graph, key)
    /\ UNCHANGED <<variant, processors, registered, reRegistered>>
    /\ UNCHANGED callVars
    /\ UNCHANGED extVars

register_dependency(source, target) ==
    /\ pc = "idle"
    /\ \/ HasEdge(graph, source, target)
       \/ Cardinality(EdgeSet(graph)) < MaxEdges
    /\ graph' = AddEdge(AddNode(AddNode(graph, source), target), source, target)
    /\ reRegistered' = (reRegistered \/ HasEdge(graph, source, target))
    /\ UNCHANGED <<variant, processors, registered>>
    /\ UNCHANGED callVars
    /\ UNCHANGED extVars

\* What one register_dependency call does to the graph.
RegisterPair(g, source, target) ==
    AddEdge(AddNode(AddNode(g, source), target), source, target)

\* for src, tgt in pairs: self.register_dependency(src, tgt)
RECURSIVE RegisterAll(_, _)
RegisterAll(g, pairs) ==
    IF pairs = << >>
    THEN g
    ELSE RegisterAll(RegisterPair(g, Head(pairs)[1], Head(pairs)[2]), Tail(pairs))

\* The pair sequences a caller hands to register_dependencies.
BulkInputs == UNION {[1..n -> Pairs] : n \in 1..MaxBulk}

register_dependencies(pairs) ==
    /\ pc = "idle"
    /\ bulk_given = << >>
    /\ graph' = RegisterAll(graph, pairs)
    /\ bulk_given' = pairs
    /\ UNCHANGED <<builds, wizVars, hostVars>>
    /\ reRegistered' =
          (\/ reRegistered
           \/ \E i \in 1..Len(pairs) :
                 \/ HasEdge(graph, pairs[i][1], pairs[i][2])
                 \/ \E j \in 1..(i - 1) : pairs[j] = pairs[i])
    /\ UNCHANGED <<variant, processors, registered>>
    /\ UNCHANGED callVars

\* dict.setdefault: a binding that exists is kept.
BindKeepFirst(reg, key, func) ==
    IF reg[key] = NoProc THEN [reg EXCEPT ![key] = func] ELSE reg

\* self._processors[key] = func
Bind(reg, key, func) ==
    [reg EXCEPT ![key] = func]

Rebound == {k \in Keys : Len(registered[k]) > 1}

\* A register_processor that also makes its key a node of the graph.
register_processor_node(key, func) ==
    /\ pc = "idle"
    /\ func = "f" => registered[key] \in { << >>, <<"f">> }
    /\ func = "g" => /\ registered[key] # << >>
                     /\ key \in Rebound \/ Cardinality(Rebound) < MaxRebinds
    /\ processors' = Bind(processors, key, func)
    /\ graph' = AddNode(graph, key)
    /\ registered' =
          IF registered[key] # << >> /\ registered[key][Len(registered[key])] = func
          THEN registered
          ELSE [registered EXCEPT ![key] = Append(@, func)]
    /\ UNCHANGED <<variant, reRegistered>>
    /\ UNCHANGED callVars
    /\ UNCHANGED extVars

register_processor(key, func) ==
    /\ pc = "idle"
    /\ func = "f" => registered[key] \in { << >>, <<"f">> }
    /\ func = "g" => /\ registered[key] # << >>
                     /\ key \in Rebound \/ Cardinality(Rebound) < MaxRebinds
    /\ processors' = Bind(processors, key, func)
    /\ registered' =
          IF registered[key] # << >> /\ registered[key][Len(registered[key])] = func
          THEN registered
          ELSE [registered EXCEPT ![key] = Append(@, func)]
    /\ UNCHANGED <<variant, graph, reRegistered>>
    /\ UNCHANGED callVars
    /\ UNCHANGED extVars

\* ------------------------------------------------------------ notification

\* nx.descendants leaves the source out of the result whatever the graph:
\* the search starts with the source marked as seen.
InitialVisitedNone(key) == {}

InitialVisited(key) == {key}

\* A search that stops at the direct successors of the changed key.
NewlyReachedDirect(g, front, seen) ==
    IF front = {updated_key} THEN SuccessorsOf(g, front) \ seen ELSE {}

\* One layer of the search that keeps no record of the nodes it has seen.
NewlyReachedUnmarked(g, front, seen) == SuccessorsOf(g, front)

\* One layer of the breadth-first search of nx.descendants: the successors
\* of the last layer that were not seen before.
NewlyReached(g, front, seen) == SuccessorsOf(g, front) \ seen

\* A sort that yields the nodes in any order at all.
ReadyAny(g, rest) == rest

\* nx.topological_sort (Kahn): a node is yielded once every predecessor has
\* been yielded; which of several such nodes comes first depends on the
\* insertion order of the graph.  A node on a cycle, or below one, is never
\* ready.
Ready(g, rest) ==
    {n \in rest : \A m \in rest : ~HasEdge(g, m, n)}

\* Where the call stands once the sort has `rest` left to yield: the
\* generator ends, goes on, or raises NetworkXUnfeasible (a cycle).  The
\* sort is a generator: it raises only when it is asked for the next node
\* and none is ready, after it has yielded every node that is neither on a
\* cycle nor below one.
SortPc(g, rest) ==
    IF rest # {} /\ Ready(g, rest) # {} THEN "toposort" ELSE "done"

\* A sort that ends quietly when no node is ready.
SortErrNone(g, rest) == "none"

SortErr(g, rest) ==
    IF rest # {} /\ Ready(g, rest) = {} THEN "NetworkXUnfeasible" ELSE "none"

\* A variant that goes on to the sort whatever the descendants are.
NoDependentsIgnored(found) == FALSE

\* src/trigger_engine.py: `if not affected: return`
NoDependents(found) == found = {}

notify_change(key, st) ==
    /\ pc = "idle"
    /\ updated_key' = key
    /\ calls' = << >>
    /\ state' = st
    /\ err' = "none"
    /\ affected' = {}
    /\ todo' = {}
    /\ IF key \notin graph.nodes
       THEN /\ pc' = "done"
            /\ visited' = {}
            /\ frontier' = {}
       ELSE /\ pc' = "bfs"
            /\ visited' = InitialVisited(key)
            /\ frontier' = {key}
    /\ UNCHANGED engineVars
    /\ UNCHANGED extVars

\* The search of nx.descendants, one layer per step; when no new node is
\* found the set is complete and the for loop starts.
descendants ==
    /\ pc = "bfs"
    /\ LET new == NewlyReached(graph, frontier, visited) IN
       IF new # {}
       THEN /\ visited' = visited \cup new
            /\ affected' = affected \cup new
            /\ frontier' = new
            /\ UNCHANGED <<pc, todo, err>>
       ELSE /\ frontier' = {}
            /\ UNCHANGED <<visited, affected>>
            /\ IF variant # "topo"
               THEN /\ todo' = affected
                    /\ pc' = IF affected = {} THEN "done" ELSE "loop"
                    /\ err' = "none"
               ELSE IF NoDependents(affected)
               THEN /\ todo' = {}
                    /\ pc' = "done"
                    /\ err' = "none"
               ELSE /\ todo' = graph.nodes
                    /\ pc' = SortPc(graph, graph.nodes)
                    /\ err' = SortErr(graph, graph.nodes)
    /\ UNCHANGED <<updated_key, calls, state>>
    /\ UNCHANGED engineVars
    /\ UNCHANGED extVars

\* ------------------------------------------------------------ field values

\* A field value is a str or a list of str.  A str is the sequence of its
\* pieces: a piece is a run of whitespace (" "), a comma, or a word.
Str(pieces) == [list |-> FALSE, body |-> pieces]
List(items) == [list |-> TRUE, body |-> items]

\* "" and []; state.get(key, "") of a key the state does not hold.
Blank == Str(<< >>)

\* bool(value): the empty str and the empty list are false.
Truthy(v) == v.body # << >>

\* str.lower on one piece.
LowerPiece(c) ==
    CASE c = "Competitive" -> "competitive"
      [] c = "COMPETITIVE" -> "competitive"
      [] c = "Hybrid" -> "hybrid"
      [] c = "Full" -> "full"
      [] c = "Remote" -> "remote"
      [] c = "On-site" -> "on-site"
      [] c = "Senior" -> "senior"
      [] c = "Junior" -> "junior"
      [] c = "Sales" -> "sales"
      [] c = "Manager" -> "manager"
      [] c = "Engineer" -> "engineer"
      [] c = "English" -> "english"
      [] c = "German" -> "german"
      [] OTHER -> c

Lower(pieces) == [i \in 1..Len(pieces) |-> LowerPiece(pieces[i])]

RECURSIVE LStrip(_)
LStrip(pieces) ==
    IF pieces # << >> /\ Head(pieces) = " " THEN LStrip(Tail(pieces)) ELSE pieces

RECURSIVE RStrip(_)
RStrip(pieces) ==
    IF pieces # << >> /\ pieces[Len(pieces)] = " "
    THEN RStrip(SubSeq(pieces, 1, Len(pieces) - 1))
    ELSE pieces

\* str.strip
Strip(pieces) == RStrip(LStrip(pieces))

\* " ".join(items)
RECURSIVE Join(_)
Join(items) ==
    IF items = << >> THEN << >>
    ELSE IF Len(items) = 1 THEN items[1]
    ELSE items[1] \o <<" ">> \o Join(Tail(items))

\* text.split(","): the parts between the commas.
RECURSIVE Split(_, _)
Split(pieces, part) ==
    IF pieces = << >> THEN <<part>>
    ELSE IF Head(pieces) = "," THEN <<part>> \o Split(Tail(pieces), << >>)
    ELSE Split(Tail(pieces), Append(part, Head(pieces)))

\* `term in title` for a one-word term.
Contains(pieces, word) == \E i \in 1..Len(pieces) : pieces[i] = word

\* ------------------------------------------------------ default processors

\* The keys of the wizard's state the default processors read or write.
\* Keys the processors read with .get but the modelled state never holds
\* (role_description, industry_sector, city) take their default there.
Fields ==
    {"job_title", "job_level", "industry_experience", "parsed_data_raw",
     "task_list", "must_have_skills", "nice_to_have_skills", "salary_range",
     "remote_work_policy", "desired_publication_channels",
     "bonus_scheme", "commission_structure",
     "language_requirements", "language_of_ad", "translation_required"}

\* What the suggestion model's answer looks like after .strip() when it is
\* not empty.
Suggested == Str(<<"suggested">>)

\* "LinkedIn Remote Jobs; WeWorkRemotely"
RecommendedChannels == Str(<<"LinkedIn", " ", "Remote", " ", "Jobs;", " ", "WeWorkRemotely">>)

\* A processor run is a pair <<state it leaves, what the suggestion model
\* did>>: "none" when the processor never asked it.
Quiet(st) == {<<st, "none">>}

\* try: response = call_with_retry(...); text = ....strip()
\* except Exception: return
\* if text: state[field] = text
Ask(st, field) ==
    {<<st, "failed">>, <<st, "empty">>, <<[st EXCEPT ![field] = Suggested], "text">>}

update_task_list(st) ==
    IF Truthy(st["task_list"]) THEN Quiet(st)
    ELSE IF ~Truthy(st["job_title"]) THEN Quiet(st)
    ELSE Ask(st, "task_list")

update_must_have_skills(st) ==
    IF Truthy(st["must_have_skills"]) THEN Quiet(st)
    ELSE IF ~Truthy(st["job_title"]) /\ ~Truthy(st["task_list"]) THEN Quiet(st)
    ELSE Ask(st, "must_have_skills")

update_nice_to_have_skills(st) ==
    IF Truthy(st["nice_to_have_skills"]) THEN Quiet(st)
    ELSE IF ~Truthy(st["must_have_skills"]) THEN Quiet(st)
    ELSE Ask(st, "nice_to_have_skills")

\* A salary check that takes only the exact lower-case word as placeholder.
IsConcreteSalaryExact(current) ==
    Truthy(current) /\ current.body \notin {<< >>, <<"competitive">>}

\* current and str(current).strip().lower() not in {"", "competitive"}
IsConcreteSalary(current) ==
    Truthy(current) /\ Lower(Strip(current.body)) \notin {<< >>, <<"competitive">>}

update_salary_range(st) ==
    IF IsConcreteSalary(st["salary_range"]) THEN Quiet(st)
    ELSE Ask(st, "salary_range")

\* src/processors/salary.py of the src package: the same check, the
\* same three ways the estimate ends.
src_update_salary_range(st) ==
    IF IsConcreteSalary(st["salary_range"]) THEN Quiet(st)
    ELSE Ask(st, "salary_range")

\* remote in {"hybrid", "full remote"}
TriggerPolicies == {<<"hybrid">>, <<"full", " ", "remote">>}

\* A policy text that is compared as it was typed.
PolicyTextExact(raw) ==
    IF raw.list
    THEN Join(raw.body)
    ELSE raw.body

\* " ".join(str(v).lower() for v in raw_policy) or str(raw_policy).lower()
PolicyText(raw) ==
    IF raw.list
    THEN Join([i \in 1..Len(raw.body) |-> Lower(raw.body[i])])
    ELSE Lower(raw.body)

\* The same with .strip() before .lower(), as src/processors/publication.py
\* of the src package has it.
src_PolicyText(raw) ==
    IF raw.list
    THEN Join([i \in 1..Len(raw.body) |-> Lower(Strip(raw.body[i]))])
    ELSE Lower(Strip(raw.body))

update_publication_channels(st) ==
    IF PolicyText(st["remote_work_policy"]) \in TriggerPolicies
    THEN {<<[st EXCEPT !["desired_publication_channels"] = RecommendedChannels], "none">>}
    ELSE Quiet(st)

src_update_publication_channels(st) ==
    IF Truthy(st["desired_publication_channels"]) THEN Quiet(st)
    ELSE IF src_PolicyText(st["remote_work_policy"]) \in TriggerPolicies
    THEN {<<[st EXCEPT !["desired_publication_channels"] = RecommendedChannels], "none">>}
    ELSE Quiet(st)

BonusLevels ==
    {<<"mid-level">>, <<"senior">>, <<"director">>, <<"c-level">>, <<"executive">>}

update_bonus_scheme(st) ==
    IF Truthy(st["bonus_scheme"]) THEN Quiet(st)
    ELSE IF Lower(st["job_level"].body) \in BonusLevels
    THEN {<<[st EXCEPT !["bonus_scheme"] = Str(<<"Eligible for an annual performance bonus.">>)], "none">>}
    ELSE Quiet(st)

\* Of the four terms only "sales" is a word of the modelled titles.
update_commission_structure(st) ==
    IF Truthy(st["commission_structure"]) THEN Quiet(st)
    ELSE IF Contains(Lower(st["job_title"].body), "sales")
    THEN {<<[st EXCEPT !["commission_structure"] = Str(<<"Commission based on sales performance.">>)], "none">>}
    ELSE Quiet(st)

\* {lang.strip().lower() for lang in lang_req.split(",") if lang.strip()}
RequiredLanguages(lang_req) ==
    LET parts == Split(lang_req, << >>)
    IN  {Lower(Strip(parts[i])) : i \in {j \in 1..Len(parts) : Strip(parts[j]) # << >>}}

\* state.get("language_of_ad", "").strip() or "English"
AdLanguage(st) ==
    IF Strip(st["language_of_ad"].body) # << >>
    THEN Strip(st["language_of_ad"].body)
    ELSE <<"English">>

update_translation_required(st) ==
    IF ~Truthy(st["language_requirements"]) THEN Quiet(st)
    ELSE IF /\ Lower(AdLanguage(st)) # << >>
            /\ Lower(AdLanguage(st)) \notin
                  RequiredLanguages(Strip(st["language_requirements"].body))
         THEN {<<[st EXCEPT !["translation_required"] = Str(<<"Yes">>)], "none">>}
         ELSE {<<[st EXCEPT !["translation_required"] = Str(<<"No">>)], "none">>}

\* The five processors the src package imports from its own
\* logic.processors: a processor that returns early when its field is
\* filled and otherwise may fill it with a suggestion.
src_logic_processor(st, field) ==
    IF Truthy(st[field]) THEN Quiet(st)
    ELSE {<<st, "none">>, <<[st EXCEPT ![field] = Suggested], "text">>}

\* processor(state): the runs the processor bound under `func` can make.
\* The stub processors "f" and "g" append their key to the list in state.
Run(func, node, st) ==
    CASE func \in Procs -> {<<Append(st, node), "none">>}
      [] func = "update_task_list" -> update_task_list(st)
      [] func = "update_must_have_skills" -> update_must_have_skills(st)
      [] func = "update_nice_to_have_skills" -> update_nice_to_have_skills(st)
      [] func = "update_salary_range" -> update_salary_range(st)
      [] func = "update_publication_channels" -> update_publication_channels(st)
      [] func = "update_bonus_scheme" -> update_bonus_scheme(st)
      [] func = "update_commission_structure" -> update_commission_structure(st)
      [] func = "update_translation_required" -> update_translation_required(st)
      [] func = "src.update_salary_range" -> src_update_salary_range(st)
      [] func = "src.update_publication_channels" -> src_update_publication_channels(st)
      [] OTHER -> src_logic_processor(st, node)

\* Whether the processor can raise: the stubs can; the default processors
\* catch what the suggestion model raises.
\* Processors that let the exception of their suggestion call escape.
RaisesAny(func) == TRUE

Raises(func) == func \in Procs

\* A loop body that takes the processor with self._processors[node].
DispatchStrict(node, nextPc, nextErr) ==
    IF processors[node] = NoProc
    THEN /\ UNCHANGED <<calls, state>>
         /\ pc' = "done"
         /\ err' = "KeyError"
    ELSE \/ /\ calls' = Append(calls, <<node, processors[node], "returned", state>>)
            /\ state' = Append(state, node)
            /\ pc' = nextPc
            /\ err' = nextErr
         \/ /\ calls' = Append(calls, <<node, processors[node], "raised", state>>)
            /\ state' = state
            /\ pc' = "done"
            /\ err' = "ProcessorError"

\* A loop body that catches what the processor raises and goes on.
DispatchCatch(node, nextPc, nextErr) ==
    IF processors[node] = NoProc
    THEN /\ UNCHANGED <<calls, state>>
         /\ pc' = nextPc
         /\ err' = nextErr
    ELSE /\ \/ /\ calls' = Append(calls, <<node, processors[node], "returned", state>>)
               /\ state' = Append(state, node)
            \/ /\ calls' = Append(calls, <<node, processors[node], "raised", state>>)
               /\ state' = state
         /\ pc' = nextPc
         /\ err' = nextErr

\* A loop body that hands each processor its own copy: processor(dict(state)).
DispatchCopy(node, nextPc, nextErr) ==
    IF processors[node] = NoProc
    THEN /\ UNCHANGED <<calls, state>>
         /\ pc' = nextPc
         /\ err' = nextErr
    ELSE \/ /\ calls' = Append(calls, <<node, processors[node], "returned", state>>)
            /\ state' = state
            /\ pc' = nextPc
            /\ err' = nextErr
         \/ /\ calls' = Append(calls, <<node, processors[node], "raised", state>>)
            /\ state' = state
            /\ pc' = "done"
            /\ err' = "ProcessorError"

\* The loop body: processor = self._processors.get(node); if processor:
\* processor(state).  The processor is handed the caller's dict (the fourth
\* component of a calls entry is what it found there) and writes into it;
\* a stub appends its key to the list in it and returns, or raises before
\* it writes; nothing catches the exception.
Dispatch(node, nextPc, nextErr) ==
    IF processors[node] = NoProc
    THEN /\ UNCHANGED <<calls, state>>
         /\ pc' = nextPc
         /\ err' = nextErr
    ELSE \/ \E run \in Run(processors[node], node, state) :
               /\ calls' = Append(calls, <<node, processors[node], "returned",
                                           state, run[2]>>)
               /\ state' = run[1]
               /\ pc' = nextPc
               /\ err' = nextErr
         \/ /\ Raises(processors[node])
            /\ calls' = Append(calls, <<node, processors[node], "raised", state, "none">>)
            /\ state' = state
            /\ pc' = "done"
            /\ err' = "ProcessorError"

\* `for node in affected` of the descendant-set engines: the set yields its
\* elements in the order of its hash table, which for str keys changes with
\* the interpreter's hash seed.
process_affected ==
    /\ pc = "loop"
    /\ variant # "topo"
    /\ \E node \in todo :
          /\ todo' = todo \ {node}
          /\ Dispatch(node, IF todo \ {node} = {} THEN "done" ELSE "loop", "none")
    /\ UNCHANGED <<updated_key, visited, frontier, affected>>
    /\ UNCHANGED engineVars
    /\ UNCHANGED extVars

\* `for node in nx.topological_sort(self.graph): if node in affected: ...`
process_sorted ==
    /\ pc = "toposort"
    /\ variant = "topo"
    /\ \E node \in Ready(graph, todo) :
          LET rest == todo \ {node} IN
          /\ todo' = rest
          /\ IF node \in affected
             THEN Dispatch(node, SortPc(graph, rest), SortErr(graph, rest))
             ELSE /\ UNCHANGED <<calls, state>>
                  /\ pc' = SortPc(graph, rest)
                  /\ err' = SortErr(graph, rest)
    /\ UNCHANGED <<updated_key, visited, frontier, affected>>
    /\ UNCHANGED engineVars
    /\ UNCHANGED extVars

\* The caller has the outcome of the call and goes on.
caller_continues ==
    /\ pc = "done"
    /\ pc' = "idle"
    /\ updated_key' = NoProc
    /\ visited' = {}
    /\ frontier' = {}
    /\ affected' = {}
    /\ todo' = {}
    /\ calls' = << >>
    /\ state' = EntryState
    /\ err' = "none"
    /\ UNCHANGED engineVars
    /\ UNCHANGED extVars

Step ==
    \/ descendants
    \/ process_affected
    \/ process_sorted

Next ==
    \/ \E key \in Keys : register_node(key)
    \/ \E p \in Pairs : register_dependency(p[1], p[2])
    \/ \E key \in ProcKeys, func \in Procs : register_processor(key, func)
    \/ \E key \in Keys : notify_change(key, EntryState)
    \/ descendants
    \/ process_affected
    \/ process_sorted
    \/ caller_continues

Spec == Init /\ [][Next]_vars

\* notify_change is synchronous code: once called it runs to its end.
SpecLive == Spec /\ WF_vars(Step)

\* ----------------------------------------------------------- default graph

\* Which file's build_default_graph (and notify_change) the engine has:
\* src/logic/trigger_engine.py, src/src/logic/trigger_engine.py or
\* src/trigger_engine.py.
DefaultVariants == {"logic", "src_logic", "topo"}

\* _DEPENDENCY_PAIRS of src/logic/trigger_engine.py and, pair for pair, of
\* src/src/logic/trigger_engine.py.
LogicPairs ==
    << <<"job_title", "task_list">>,
       <<"job_title", "must_have_skills">>,
       <<"job_title", "commission_structure">>,
       <<"job_level", "bonus_scheme">>,
       <<"task_list", "salary_range">>,
       <<"must_have_skills", "salary_range">>,
       <<"must_have_skills", "nice_to_have_skills">>,
       <<"remote_work_policy", "desired_publication_channels">>,
       <<"industry_experience", "task_list">>,
       <<"parsed_data_raw", "salary_range">> >>

\* A pair list in which the salary range feeds back into the task list.
TopoPairsCyclic ==
    << <<"job_title", "task_list">>,
       <<"task_list", "salary_range">>,
       <<"salary_range", "task_list">> >>

\* _DEPENDENCY_PAIRS of src/trigger_engine.py.
TopoPairs ==
    << <<"job_title", "task_list">>,
       <<"industry_experience", "task_list">>,
       <<"task_list", "must_have_skills">>,
       <<"must_have_skills", "nice_to_have_skills">>,
       <<"task_list", "salary_range">>,
       <<"must_have_skills", "salary_range">>,
       <<"parsed_data_raw", "salary_range">>,
       <<"remote_work_policy", "desired_publication_channels">>,
       <<"job_level", "bonus_scheme">>,
       <<"job_title", "commission_structure">>,
       <<"language_requirements", "translation_required">> >>

DEPENDENCY_PAIRS(v) == IF v = "topo" THEN TopoPairs ELSE LogicPairs

\* register_all_processors of src/logic/processors.py.
LogicBindings ==
    << <<"task_list", "update_task_list">>,
       <<"must_have_skills", "update_must_have_skills">>,
       <<"nice_to_have_skills", "update_nice_to_have_skills">>,
       <<"salary_range", "update_salary_range">>,
       <<"desired_publication_channels", "update_publication_channels">>,
       <<"bonus_scheme", "update_bonus_scheme">>,
       <<"commission_structure", "update_commission_structure">>,
       <<"translation_required", "update_translation_required">> >>

\* The register_processor calls of build_default_graph in
\* src/src/logic/trigger_engine.py.
SrcLogicBindings ==
    << <<"task_list", "src.update_task_list">>,
       <<"must_have_skills", "src.update_must_have_skills">>,
       <<"nice_to_have_skills", "src.update_nice_to_have_skills">>,
       <<"salary_range", "src.update_salary_range">>,
       <<"desired_publication_channels", "src.update_publication_channels">>,
       <<"bonus_scheme", "src.update_bonus_scheme">>,
       <<"commission_structure", "src.update_commission_structure">> >>

\* build_default_graph of src/trigger_engine.py registers no processor.
Bindings(v) ==
    IF v = "logic" THEN LogicBindings
    ELSE IF v = "src_logic" THEN SrcLogicBindings
    ELSE << >>

\* engine.register_processor(key, func), one call after the other.
RECURSIVE BindAll(_, _)
BindAll(reg, bindings) ==
    IF bindings = << >>
    THEN reg
    ELSE BindAll(Bind(reg, Head(bindings)[1], Head(bindings)[2]), Tail(bindings))

\* The history of register_processor calls, one call after the other.
RECURSIVE RecordAll(_, _)
RecordAll(hist, bindings) ==
    IF bindings = << >>
    THEN hist
    ELSE RecordAll([hist EXCEPT ![Head(bindings)[1]] = Append(@, Head(bindings)[2])],
                   Tail(bindings))

build_default_graph ==
    /\ pc = "idle"
    /\ builds < MaxBuilds
    /\ graph' = RegisterAll(graph, DEPENDENCY_PAIRS(variant))
    /\ processors' = BindAll(processors, Bindings(variant))
    /\ registered' = RecordAll(registered, Bindings(variant))
    /\ reRegistered' = (reRegistered \/ builds > 0)
    /\ builds' = builds + 1
    /\ UNCHANGED <<variant, bulk_given, wizVars, hostVars>>
    /\ UNCHANGED callVars

\* The values a caller's state holds in a field.
FieldValues(f) ==
    CASE f = "job_title" -> {Str(<<"Sales", " ", "Manager">>), Str(<<"Engineer">>)}
      [] f = "job_level" -> {Str(<<"Senior">>), Str(<<"Junior">>)}
      [] f = "salary_range" ->
            {Str(<<" ">>), Str(<<" ", "Competitive">>),
             Str(<<"competitive", " ", "pay">>), Str(<<"50k">>)}
      [] f = "remote_work_policy" ->
            {Str(<<"Hybrid">>), Str(<<" ", "hybrid">>), Str(<<"Full", " ", "Remote">>),
             Str(<<"On-site">>), List(<< <<"Full">>, <<"Remote">> >>)}
      [] f = "language_requirements" ->
            {Str(<<"German">>), Str(<<"English", ",", " ", "German">>)}
      [] f = "language_of_ad" -> {Str(<<"German">>)}
      [] f = "translation_required" -> {Str(<<"Yes">>), Str(<<"No">>)}
      [] f \in {"industry_experience", "parsed_data_raw"} -> {}
      [] OTHER -> {Str(<<"typed">>)}

BlankState == [f \in Fields |-> Blank]

Filled(st) == {f \in Fields : st[f] # Blank}

\* The states with at most n fields filled.
RECURSIVE StatesFilled(_)
StatesFilled(n) ==
    IF n = 0 THEN {BlankState}
    ELSE LET less == StatesFilled(n - 1)
         IN  less \cup UNION {{[st EXCEPT ![f] = v] : v \in FieldValues(f)} :
                                st \in less, f \in Fields}

EntryStates == StatesFilled(MaxFilled)

\* A fresh engine: TriggerEngine().
InitDefault ==
    /\ variant \in DefaultVariants
    /\ graph = [nodes |-> {}, edges |-> [p \in Fields \X Fields |-> 0]]
    /\ processors = [k \in Fields |-> NoProc]
    /\ registered = [k \in Fields |-> << >>]
    /\ reRegistered = FALSE
    /\ pc = "idle"
    /\ updated_key = NoProc
    /\ visited = {}
    /\ frontier = {}
    /\ affected = {}
    /\ todo = {}
    /\ calls = << >>
    /\ state = EntryState
    /\ err = "none"
    /\ bulk_given = << >>
    /\ builds = 0
    /\ NoWizard
    /\ NoHost

NextDefault ==
    \/ build_default_graph
    \/ \E key \in Fields : notify_change(key, BlankState)
    \/ descendants
    \/ process_affected
    \/ process_sorted
    \/ caller_continues

SpecDefault == InitDefault /\ [][NextDefault]_vars

\* ------------------------------------------------- the processors at work

\* The engines whose build_default_graph binds processors.
BoundVariants == {"logic", "src_logic"}

\* An engine on which build_default_graph has run once.
InitFields ==
    /\ variant \in BoundVariants
    /\ graph = RegisterAll([nodes |-> {}, edges |-> [p \in Fields \X Fields |-> 0]],
                           DEPENDENCY_PAIRS(variant))
    /\ processors = BindAll([k \in Fields |-> NoProc], Bindings(variant))
    /\ registered = RecordAll([k \in Fields |-> << >>], Bindings(variant))
    /\ reRegistered = FALSE
    /\ pc = "idle"
    /\ updated_key = NoProc
    /\ visited = {}
    /\ frontier = {}
    /\ affected = {}
    /\ todo = {}
    /\ calls = << >>
    /\ state = EntryState
    /\ err = "none"
    /\ bulk_given = << >>
    /\ builds = 1
    /\ NoWizard
    /\ NoHost

\* The keys a change of `key` reaches.
Below(g, key) == ReachPlus(g, key) \ {key}

\* The keys whose change is reported to the engine.
NotifyKeys(g) ==
    {key \in Fields : key \in g.nodes => Cardinality(Below(g, key)) <= MaxAffected}

\* A caller reports the change of a field with the state it holds.
field_changed ==
    /\ pc = "idle"
    /\ \E key \in NotifyKeys(graph), st \in EntryStates : notify_change(key, st)

NextFields ==
    \/ field_changed
    \/ descendants
    \/ process_affected
    \/ caller_continues

SpecFields == InitFields /\ [][NextFields]_vars

\* ------------------------------------------------- the engine of a session

\* `if eng is None` of _ensure_engine; 0 stands for None and for a missing
\* key, n > 0 for the n-th TriggerEngine made in the session.
MissingAlways(eng) == TRUE

Missing(eng) == eng = 0

\* dict(st.session_state): a new dict with the session's items.
SessionDict(fields) == fields

\* A session in which no script has run yet.
InitSession ==
    /\ variant = "logic"
    /\ graph = [nodes |-> {}, edges |-> [p \in Fields \X Fields |-> 0]]
    /\ processors = [k \in Fields |-> NoProc]
    /\ registered = [k \in Fields |-> << >>]
    /\ reRegistered = FALSE
    /\ pc = "idle"
    /\ updated_key = NoProc
    /\ visited = {}
    /\ frontier = {}
    /\ affected = {}
    /\ todo = {}
    /\ calls = << >>
    /\ state = EntryState
    /\ err = "none"
    /\ bulk_given = << >>
    /\ builds = 0
    /\ ui \in WizardFiles
    /\ wizard_step = IntValue(1)
    /\ step = 0
    /\ wpc = "script"
    /\ clicked = "none"
    /\ trail = << >>
    /\ session_state = [fields |-> BlankState, trigger_engine |-> 0]
    /\ retry = NoRetry

\* _ensure_engine() of a script run: the session's engine, made and built
\* when the session has none.
ensure_engine ==
    /\ pc = "idle"
    /\ IF Missing(session_state.trigger_engine)
       THEN /\ builds < MaxBuilds
            /\ graph' = RegisterAll([nodes |-> {},
                                     edges |-> [p \in Fields \X Fields |-> 0]],
                                    DEPENDENCY_PAIRS(variant))
            /\ processors' = BindAll([k \in Fields |-> NoProc], Bindings(variant))
            /\ registered' = RecordAll([k \in Fields |-> << >>], Bindings(variant))
            /\ builds' = builds + 1
            /\ session_state' = [session_state EXCEPT !.trigger_engine = builds + 1]
       ELSE UNCHANGED <<graph, processors, registered, builds, session_state>>
    /\ UNCHANGED <<variant, reRegistered, bulk_given, wizVars, retry>>
    /\ UNCHANGED callVars

\* st.session_state[k] = v; _ensure_engine().notify_change(k,
\* dict(st.session_state)) on a page drawn after run_wizard's own
\* _ensure_engine(): the call starts on a new dict.
handle_static_step(k, v) ==
    /\ pc = "idle"
    /\ ~Missing(session_state.trigger_engine)
    /\ LET stored == [session_state.fields EXCEPT ![k] = v] IN
       /\ Cardinality(Filled(stored)) <= MaxFilled
       /\ session_state' = [session_state EXCEPT !.fields = stored]
       /\ state' = SessionDict(stored)
    /\ updated_key' = k
    /\ calls' = << >>
    /\ err' = "none"
    /\ affected' = {}
    /\ todo' = {}
    /\ IF k \notin graph.nodes
       THEN /\ pc' = "done"
            /\ visited' = {}
            /\ frontier' = {}
       ELSE /\ pc' = "bfs"
            /\ visited' = InitialVisited(k)
            /\ frontier' = {k}
    /\ UNCHANGED engineVars
    /\ UNCHANGED <<bulk_given, builds, wizVars, retry>>

field_stored ==
    /\ pc = "idle"
    /\ \E k \in NotifyKeys(graph) : \E v \in FieldValues(k) : handle_static_step(k, v)

NextSession ==
    \/ ensure_engine
    \/ field_stored
    \/ descendants
    \/ process_affected
    \/ caller_continues

SpecSession == InitSession /\ [][NextSession]_vars

\* ------------------------------------------------- session initialisation

\* initialize_session_state of src/src/state/session_state.py ("src_state")
\* and of src/session_state.py ("session_state"), init_session_state of
\* src/utils/session_keys.py ("session_keys").
InitFiles == {"src_state", "session_state", "session_keys"}

\* initialize_session_state is called at most this often in one session.
MaxInits == 3

\* A key the session does not hold.
Absent == "absent"

\* Keys of the session: a wizard field (in STEP_KEYS and in ALL_KEYS), a
\* generated field (in GENERATED_KEYS), the two keys with a default of
\* their own, and the flag the initialiser of the file sets.
SessionKeys == {"job_title", "generated", "wizard_step", "trace_events", "init_flag"}

\* The keys each file's initialiser is to provide.
ExpectedKeys(file) ==
    CASE file = "src_state" -> {"job_title", "generated", "trace_events"}
      [] file = "session_state" -> {"job_title", "generated", "wizard_step", "trace_events"}
      [] OTHER -> {"job_title"}

\* An assignment st.session_state[k] = v in place of setdefault.
SetAlways(f, k, v) == [f EXCEPT ![k] = v]

\* st.session_state.setdefault(k, v)
SetDefault(f, k, v) == IF f[k] = Absent THEN [f EXCEPT ![k] = v] ELSE f

\* The test the initialiser starts with: `flag in st.session_state` in
\* src/src/state, `st.session_state.get(flag)` in the other two files.
AlreadyInitialized(file, f) ==
    IF file = "src_state" THEN f["init_flag"] # Absent ELSE f["init_flag"] = "True"

\* The body of the initialiser, one statement after the other.
initialize(file, f) ==
    IF AlreadyInitialized(file, f) THEN f
    ELSE LET f1 == SetDefault(f, "job_title", "None")
             f2 == IF file = "session_keys" THEN f1 ELSE SetDefault(f1, "generated", "None")
             f3 == IF file = "session_state" THEN SetDefault(f2, "wizard_step", "1") ELSE f2
             f4 == IF file = "session_keys" THEN f3 ELSE SetDefault(f3, "trace_events", "[]")
         IN  [f4 EXCEPT !["init_flag"] = "True"]

\* A new session: any of the keys may be there already, with None or with
\* a value, the flag is not.
InitState ==
    /\ variant = "logic"
    /\ graph = EmptyGraph
    /\ processors = [k \in Keys |-> NoProc]
    /\ registered = [k \in Keys |-> << >>]
    /\ reRegistered = FALSE
    /\ pc = "idle"
    /\ updated_key = NoProc
    /\ visited = {}
    /\ frontier = {}
    /\ affected = {}
    /\ todo = {}
    /\ calls = << >>
    /\ state = EntryState
    /\ err = "none"
    /\ bulk_given = << >>
    /\ builds = 0
    /\ NoWizard
    /\ retry = NoRetry
    /\ \E file \in InitFiles :
       \E f \in [SessionKeys -> {Absent, "None", "kept"}] :
          /\ f["init_flag"] = Absent
          /\ session_state = [fields |-> f, trigger_engine |-> 0,
                              file |-> file, inits |-> 0]

notSession == <<engineVars, callVars, bulk_given, builds, wizVars, retry>>

\* A script run calls the initialiser.
initialize_session_state ==
    /\ session_state.inits < MaxInits
    /\ session_state' =
          [session_state EXCEPT !.fields = initialize(session_state.file, @),
                                !.inits = @ + 1]
    /\ UNCHANGED notSession

\* The user, or the wizard, gives a key a new value once the session is
\* set up.
value_changed ==
    /\ session_state.inits >= 1
    /\ \E k \in SessionKeys \ {"init_flag"} :
          session_state' = [session_state EXCEPT !.fields[k] = "edited"]
    /\ UNCHANGED notSession

NextState ==
    \/ initialize_session_state
    \/ value_changed

SpecState == InitState /\ [][NextState]_vars

\* ------------------------------------------------------- call_with_retry

\* call_with_retry of src/llm_utils.py ("llm_utils") and of
\* src/utils/llm_utils.py ("utils").
RetryFiles == {"llm_utils", "utils"}

\* max_attempts: int = 3, and stop_after_attempt(3)
DefaultAttempts == 3

\* The callers pass max_attempts up to this.
MaxAttempts == 5

\* What one call of the wrapped function does: it returns, raises one of
\* the openai errors tenacity is told to retry, or raises something else.
Outcomes == {"ok", "api_error", "other_error"}

\* The values of max_attempts each file's function can be called with:
\* the keyword of src/llm_utils.py; src/utils/llm_utils.py has none.
AttemptLimits(file) ==
    IF file = "llm_utils" THEN 0..MaxAttempts ELSE {DefaultAttempts}

\* A wrapper that goes on to the next attempt whatever the last one did.
RetryableAlways(file, outcome) == TRUE

\* Whether the attempt is followed by another one when attempts are left:
\* `except Exception` in src/llm_utils.py, retry_if_exception_type((...))
\* in src/utils/llm_utils.py.
Retryable(file, outcome) ==
    IF file = "llm_utils" THEN outcome # "ok" ELSE outcome = "api_error"

InitRetry ==
    /\ variant = "logic"
    /\ graph = EmptyGraph
    /\ processors = [k \in Keys |-> NoProc]
    /\ registered = [k \in Keys |-> << >>]
    /\ reRegistered = FALSE
    /\ pc = "idle"
    /\ updated_key = NoProc
    /\ visited = {}
    /\ frontier = {}
    /\ affected = {}
    /\ todo = {}
    /\ calls = << >>
    /\ state = EntryState
    /\ err = "none"
    /\ bulk_given = << >>
    /\ builds = 0
    /\ NoWizard
    /\ NoHost

notRetry == <<engineVars, callVars, bulk_given, builds, wizVars, session_state>>

\* The call: `for attempt in range(max_attempts)` ends at once, with the
\* function's implicit return of None, when max_attempts is 0.
call_with_retry(file, max_attempts) ==
    /\ retry.pc = "none"
    /\ retry' = [file |-> file, max_attempts |-> max_attempts, attempt |-> 0,
                 tried |-> << >>,
                 pc |-> IF max_attempts <= 0 THEN "returned" ELSE "running"]
    /\ UNCHANGED notRetry

\* One attempt: func(*args, **kwargs) and what the wrapper makes of it.
attempt_made ==
    /\ retry.pc = "running"
    /\ \E outcome \in Outcomes :
          LET tried == Append(retry.tried, outcome) IN
          retry' =
             IF ~Retryable(retry.file, outcome)
             THEN [retry EXCEPT !.tried = tried,
                                !.pc = IF outcome = "ok" THEN "returned" ELSE "raised"]
             ELSE IF retry.attempt = retry.max_attempts - 1
             THEN [retry EXCEPT !.tried = tried, !.pc = "raised"]
             ELSE [retry EXCEPT !.tried = tried, !.attempt = @ + 1]
    /\ UNCHANGED notRetry

\* The caller has the result or the exception.
retry_over ==
    /\ retry.pc \in {"returned", "raised"}
    /\ retry' = NoRetry
    /\ UNCHANGED notRetry

NextRetry ==
    \/ \E file \in RetryFiles : \E n \in AttemptLimits(file) : call_with_retry(file, n)
    \/ attempt_made
    \/ retry_over

SpecRetry == InitRetry /\ [][NextRetry]_vars

\* ------------------------------------------------- bulk registration

\* An engine whose processors are bound and whose graph is still empty.
InitBulk ==
    /\ variant \in Variants
    /\ graph = EmptyGraph
    /\ processors = [k \in Keys |-> IF k \in ProcKeys THEN "f" ELSE NoProc]
    /\ registered = [k \in Keys |-> IF k \in ProcKeys THEN <<"f">> ELSE << >>]
    /\ reRegistered = FALSE
    /\ pc = "idle"
    /\ updated_key = NoProc
    /\ visited = {}
    /\ frontier = {}
    /\ affected = {}
    /\ todo = {}
    /\ calls = << >>
    /\ state = EntryState
    /\ err = "none"
    /\ bulk_given = << >>
    /\ builds = 0
    /\ NoWizard
    /\ NoHost

NextBulk ==
    \/ \E pairs \in BulkInputs : register_dependencies(pairs)
    \/ \E key \in Keys : notify_change(key, EntryState)
    \/ descendants
    \/ process_affected
    \/ process_sorted
    \/ caller_continues

SpecBulk == InitBulk /\ [][NextBulk]_vars

\* The pair sequences handed to register_dependencies next to the other
\* methods: a chain, and a self-loop followed by an edge.
EngineBulk ==
    { << <<"A", "B">>, <<"B", "D">> >>, << <<"C", "C">>, <<"C", "D">> >> }

\* Every method of the engine, on an engine that starts empty; each key
\* gets one processor.
NextEngine ==
    \/ \E key \in Keys : register_node(key)
    \/ \E p \in Pairs : register_dependency(p[1], p[2])
    \/ \E pairs \in EngineBulk : register_dependencies(pairs)
    \/ \E key \in ProcKeys : register_processor(key, "f")
    \/ \E key \in Keys : notify_change(key, EntryState)
    \/ descendants
    \/ process_affected
    \/ process_sorted
    \/ caller_continues

SpecEngine == Init /\ [][NextEngine]_vars

\* ------------------------------------------------------------ the wizard

\* The first and the last step of the wizard.
FirstStep == 1
LastStep == 8

\* The user clicks at most this many buttons.
MaxClicks == 3

\* What a session can hold under "wizard_step" when the script starts.
RawSteps ==
    {IntValue(n) : n \in (FirstStep - 2)..(LastStep + 2)}
        \cup {[kind |-> "none", n |-> 0], [kind |-> "str", n |-> 3],
              [kind |-> "bad", n |-> 0]}

\* _int_from_state(key, default): default if val is None else int(val), and
\* default when int() raises.
int_from_state(val, default) ==
    IF val.kind \in {"int", "str"} THEN val.n ELSE default

Max(a, b) == IF a >= b THEN a ELSE b
Min(a, b) == IF a <= b THEN a ELSE b

\* A clamp that has the lower limit only.
clamp_step_floor(val) == Max(FirstStep, int_from_state(val, FirstStep))

\* max(1, min(8, _int_from_state("wizard_step", 1)))
clamp_step(val) == Max(FirstStep, Min(LastStep, int_from_state(val, FirstStep)))

\* The steps _handle_static_step renders, with their "Continue to Step"
\* button.
StaticSteps == (FirstStep + 1)..(LastStep - 1)

\* A Back button wired to the callback of Home.
BackTargetHome(s) == FirstStep

\* on_click of the Next and of the Back button; s is the step the script
\* run that drew the button had.
NextTarget(s) == s + 1
BackTarget(s) == s - 1

InitWizard ==
    /\ variant = "logic"
    /\ graph = EmptyGraph
    /\ processors = [k \in Keys |-> NoProc]
    /\ registered = [k \in Keys |-> << >>]
    /\ reRegistered = FALSE
    /\ pc = "idle"
    /\ updated_key = NoProc
    /\ visited = {}
    /\ frontier = {}
    /\ affected = {}
    /\ todo = {}
    /\ calls = << >>
    /\ state = EntryState
    /\ err = "none"
    /\ bulk_given = << >>
    /\ builds = 0
    /\ ui \in WizardFiles
    /\ wizard_step \in RawSteps
    /\ step = 0
    /\ wpc = "script"
    /\ clicked = "none"
    /\ trail = << >>
    /\ NoHost

notWizard == <<engineVars, callVars, bulk_given, builds, hostVars>>

\* One script run: step = _clamp_step(); the step's page; _nav(step).  On
\* a static step whose "Continue to Step" button started this run,
\* st.button returns True and wizard_step is set to step + 1 before _nav
\* draws the buttons for step.
run_wizard ==
    /\ wpc = "script"
    /\ LET s == clamp_step(wizard_step) IN
       /\ step' = s
       /\ wizard_step' =
             IF clicked = "continue" /\ s = step /\ s \in StaticSteps
             THEN IntValue(s + 1)
             ELSE IntValue(s)
    /\ wpc' = "page"
    /\ clicked' = "none"
    /\ UNCHANGED <<ui, trail>>
    /\ UNCHANGED notWizard

\* A click on a navigation button: its on_click callback runs, then the
\* script.
Click(button, target) ==
    /\ wpc = "page"
    /\ Len(trail) < MaxClicks
    /\ wizard_step' = IntValue(target)
    /\ trail' = Append(trail, [button |-> button, shown |-> step,
                               from |-> wizard_step.n, to |-> target])
    /\ wpc' = "script"
    /\ clicked' = button
    /\ UNCHANGED <<ui, step>>
    /\ UNCHANGED notWizard

click_next ==
    /\ step < LastStep
    /\ Click("next", NextTarget(step))

click_back ==
    /\ step > FirstStep
    /\ Click("back", BackTarget(step))

click_home ==
    /\ ui = "components"
    /\ step > FirstStep
    /\ Click("home", FirstStep)

\* A click on "Continue to Step": the button has no callback, the script
\* runs.
click_continue ==
    /\ wpc = "page"
    /\ step \in StaticSteps
    /\ Len(trail) < MaxClicks
    /\ trail' = Append(trail, [button |-> "continue", shown |-> step,
                               from |-> wizard_step.n, to |-> wizard_step.n])
    /\ wpc' = "script"
    /\ clicked' = "continue"
    /\ UNCHANGED <<ui, wizard_step, step>>
    /\ UNCHANGED notWizard

NextWizard ==
    \/ run_wizard
    \/ click_next
    \/ click_back
    \/ click_home
    \/ click_continue

SpecWizard == InitWizard /\ [][NextWizard]_vars

\* ------------------------------------------------------------- properties

Acyclic(g) == \A n \in g.nodes : n \notin ReachPlus(g, n)

WithProcessor(S) == {n \in S : processors[n] # NoProc}

Invoked == {calls[i][1] : i \in 1..Len(calls)}

Written == {state[i] : i \in 1..Len(state)}

\* The call has returned to its caller without an exception.
Returned == pc = "done" /\ err = "none"

OncePerKey == Len(calls) = Cardinality(Invoked)

\* C1 as stated: a call that returns has invoked, once each, exactly the
\* processors of the fields reachable from the changed key by one or more
\* edges.
C1_AllReachableInvoked ==
    Returned =>
        /\ Invoked = WithProcessor(ReachPlus(graph, updated_key))
        /\ OncePerKey

\* C1 amended: a call that returns has invoked, once each, exactly the
\* processors of the fields other than the changed key that are reachable
\* from it by one or more edges.
C1_DescendantsInvoked ==
    Returned =>
        /\ Invoked = WithProcessor(ReachPlus(graph, updated_key) \ {updated_key})
        /\ OncePerKey

\* A call returned after it invoked at least two processors, one of them of
\* a field that is no direct dependent of the changed key.
C1_Witness ==
    /\ Returned
    /\ Len(calls) >= 2
    /\ \E n \in Invoked : n \notin Successors(graph, updated_key)

\* C2: notify_change never invokes the processor of the changed key itself,
\* whatever the graph.
C2_NeverOwnProcessor ==
    \A i \in 1..Len(calls) : calls[i][1] # updated_key

\* A descendant-set engine finished a call for a key that has a processor
\* and lies on the cycle B->D->B, and invoked another processor.
C2_Witness ==
    /\ variant = "logic"
    /\ pc = "done"
    /\ updated_key = "B"
    /\ HasEdge(graph, "B", "D") /\ HasEdge(graph, "D", "B")
    /\ processors["B"] # NoProc
    /\ calls # << >>

\* C3: a call for a key that is no node, or a node without outgoing edges,
\* invokes nothing, raises nothing and leaves state as it was.
C3_NoOpWithoutDependents ==
    (pc = "done" /\ (updated_key \notin graph.nodes
                     \/ Successors(graph, updated_key) = {}))
        => (calls = << >> /\ err = "none" /\ state = EntryState)

\* The topological engine finished a call for a registered key without
\* outgoing edges while the graph has a cycle and processors are bound.
C3_Witness ==
    /\ variant = "topo"
    /\ pc = "done"
    /\ updated_key \in graph.nodes
    /\ Successors(graph, updated_key) = {}
    /\ ~Acyclic(graph)
    /\ WithProcessor(graph.nodes) # {}

\* C4: an affected field without a processor is skipped: unless a processor
\* raised or the sort met a cycle the call raises nothing, writes nothing
\* for that field, and still invokes every affected processor.
C4_SkippedSilently ==
    (pc = "done" /\ err \notin {"ProcessorError", "NetworkXUnfeasible"}) =>
        /\ err = "none"
        /\ \A n \in affected :
              processors[n] = NoProc => (n \notin Written /\ n \notin Invoked)
        /\ WithProcessor(affected) \subseteq Invoked

\* A call returned that skipped an affected field and invoked the processor
\* of a field that depends on the skipped one.
C4_Witness ==
    /\ Returned
    /\ \E n \in affected :
          /\ processors[n] = NoProc
          /\ \E m \in Invoked : HasEdge(graph, n, m)

\* C5 (descendant-set engine of src/logic): on an acyclic graph, when u and
\* v are both invoked and v depends on u, u is invoked before v.
C5_DependenciesFirst ==
    (variant = "logic" /\ Returned /\ Acyclic(graph)) =>
        \A i, j \in 1..Len(calls) :
            calls[j][1] \in ReachPlus(graph, calls[i][1]) => i < j

\* C6 (descendant-set engine of src/logic): the invocation order is a
\* function of the registrations and the changed key, i.e. the loop never
\* has two processors of which either may be invoked next (two runs that
\* start alike would then invoke them in different orders).
C6_OrderDetermined ==
    (variant = "logic" /\ pc = "loop") =>
        Cardinality(WithProcessor(todo)) <= 1

\* C7: however often a dependency is registered the graph holds one edge
\* for it, and a call made after a repeated registration invokes each
\* affected processor once.
C7_IdempotentRegistration ==
    /\ \A p \in AllPairs : graph.edges[p] <= 1
    /\ (reRegistered /\ Returned) =>
          (OncePerKey /\ Invoked = WithProcessor(affected))

\* A->B is the only edge and was registered more than once, and a call for
\* A returned after one invocation of B's processor.
C7_Witness ==
    /\ reRegistered
    /\ EdgeSet(graph) = { <<"A", "B">> }
    /\ graph.nodes = {"A", "B"}
    /\ Returned
    /\ updated_key = "A"
    /\ Len(calls) = 1
    /\ calls[1][1] = "B"

Last(seq) == seq[Len(seq)]

\* C8: the binding of a key is the processor registered last for it, and
\* that is the one a call invokes, at most once.
C8_LastRegistrationWins ==
    /\ \A k \in Keys : registered[k] # << >> => processors[k] = Last(registered[k])
    /\ \A i \in 1..Len(calls) : calls[i][2] = Last(registered[calls[i][1]])
    /\ OncePerKey

\* A call returned that invoked g for a key registered with f and then g.
C8_Witness ==
    /\ Returned
    /\ \E i \in 1..Len(calls) :
          /\ registered[calls[i][1]] = <<"f", "g">>
          /\ calls[i][2] = "g"

\* C9: when a processor raises, the call ends there with that exception:
\* the raising invocation is the last one, the fields the loop had not
\* reached are not invoked, and what the earlier processors wrote stays.
C9_ExceptionPropagates ==
    \A i \in 1..Len(calls) :
        calls[i][3] = "raised" =>
            /\ i = Len(calls)
            /\ pc = "done"
            /\ err = "ProcessorError"
            /\ todo \cap Invoked = {}
            /\ state = [j \in 1..(Len(calls) - 1) |-> calls[j][1]]

\* A processor raised after another one had written, with an affected
\* processor still not reached.
C9_Witness ==
    /\ pc = "done"
    /\ err = "ProcessorError"
    /\ Len(state) >= 1
    /\ WithProcessor(todo \cap affected) # {}

\* C10: in the descendant-set engine every call comes to its end, on cyclic
\* graphs too, and no processor is invoked twice in a call.
C10_Terminates ==
    /\ (variant = "logic" /\ pc = "bfs") ~> (pc = "done")
    /\ [](variant = "logic" => OncePerKey)

\* A descendant-set engine finished a call for C, which has the self-loop
\* C->C, after it invoked a processor.
C10_Witness ==
    /\ variant = "logic"
    /\ pc = "done"
    /\ updated_key = "C"
    /\ HasEdge(graph, "C", "C")
    /\ calls # << >>

\* ---- bulk registration

RangeOf(seq) == {seq[i] : i \in 1..Len(seq)}

Endpoints(P) == {p[1] : p \in P} \cup {p[2] : p \in P}

RECURSIVE PairClosure(_, _, _)
PairClosure(P, S, k) ==
    IF k = 0 THEN S
    ELSE PairClosure(P, S \cup {p[2] : p \in {q \in P : q[1] \in S}}, k - 1)

\* The keys a SET of pairs leads to from x by one or more pairs.
PairReach(P, x) ==
    PairClosure(P, {p[2] : p \in {q \in P : q[1] = x}}, Cardinality(Keys))

\* C11: the graph register_dependencies leaves, and the processors a later
\* call invokes, depend only on which pairs were given, not on their order
\* or on how often each was given.
C11_OrderIndependent ==
    bulk_given # << >> =>
        /\ graph.nodes = Endpoints(RangeOf(bulk_given))
        /\ EdgeSet(graph) = RangeOf(bulk_given)
        /\ \A p \in AllPairs : graph.edges[p] <= 1
        /\ Returned =>
              Invoked = WithProcessor(PairReach(RangeOf(bulk_given), updated_key)
                                        \ {updated_key})

\* Three pairs, one of them given twice and the two distinct ones with the
\* same source, were registered, and a later call invoked two processors.
C11_Witness ==
    /\ Len(bulk_given) = 3
    /\ Cardinality(RangeOf(bulk_given)) = 2
    /\ \A i, j \in 1..3 : bulk_given[i][1] = bulk_given[j][1]
    /\ Returned
    /\ Len(calls) = 2

\* ---- the state argument

\* What the processors that returned among the first n calls wrote, in order.
WritesOf(n) ==
    LET r == SelectSeq(SubSeq(calls, 1, n), LAMBDA c : c[3] = "returned")
    IN  [j \in 1..Len(r) |-> r[j][1]]

\* C12: every processor is handed the caller's state itself: it finds there
\* what the processors before it wrote, and the caller's state holds what
\* all of them wrote.
C12_SameObject ==
    /\ \A i \in 1..Len(calls) : calls[i][4] = WritesOf(i - 1)
    /\ state = WritesOf(Len(calls))

\* A call returned after two processors ran; the second found the first's
\* write and the caller has both.
C12_Witness ==
    /\ Returned
    /\ Len(calls) = 2
    /\ calls[2][4] = <<calls[1][1]>>
    /\ state = <<calls[1][1], calls[2][1]>>

\* ---- the engine that sorts

\* C19: on an acyclic graph the engine of src/trigger_engine.py invokes the
\* processor of a key only after the processors of the affected keys it
\* depends on.
C19_TopologicalOrder ==
    (variant = "topo" /\ Acyclic(graph)) =>
        \A i, j \in 1..Len(calls) :
            calls[j][1] \in ReachPlus(graph, calls[i][1]) => i < j

\* The diamond A -> B, A -> C, B -> D, C -> D with processors on B, C and D:
\* a change of A returned with D's processor run last.
C19_Witness ==
    /\ variant = "topo"
    /\ Returned
    /\ updated_key = "A"
    /\ EdgeSet(graph) = {<<"A", "B">>, <<"A", "C">>, <<"B", "D">>, <<"C", "D">>}
    /\ Len(calls) = 3
    /\ calls[3][1] = "D"

\* C20: in the engine of src/trigger_engine.py a call for a key with a
\* dependent ends with an error whenever the graph has a cycle or a
\* self-loop, one the changed key does not reach included.
C20_AnyDependentFails ==
    (/\ variant = "topo"
     /\ pc = "done"
     /\ updated_key \in graph.nodes
     /\ Successors(graph, updated_key) # {}
     /\ ~Acyclic(graph)) => err # "none"

\* C20, amended: the call ends with an error whenever the graph has a cycle
\* or a self-loop and the changed key has a dependent other than itself; a
\* key whose only edge is its own self-loop has an empty descendant set
\* and the call returns before the sort.
C20_CycleFails ==
    (/\ variant = "topo"
     /\ pc = "done"
     /\ updated_key \in graph.nodes
     /\ ReachPlus(graph, updated_key) \ {updated_key} # {}
     /\ ~Acyclic(graph)) => err # "none"

\* A change of A, whose only dependent is B, ended with the sort's error
\* because of the self-loop on C, which A does not reach.
C20_Witness ==
    /\ variant = "topo"
    /\ pc = "done"
    /\ updated_key = "A"
    /\ EdgeSet(graph) = {<<"A", "B">>, <<"C", "C">>}
    /\ err = "NetworkXUnfeasible"

\* ---- the default graph

FreshGraph == [nodes |-> {}, edges |-> [p \in Fields \X Fields |-> 0]]

\* What one build_default_graph leaves on a fresh engine of each file.
OnceLogic ==
    [graph |-> RegisterAll(FreshGraph, LogicPairs),
     processors |-> BindAll([k \in Fields |-> NoProc], LogicBindings)]
OnceSrcLogic ==
    [graph |-> RegisterAll(FreshGraph, LogicPairs),
     processors |-> BindAll([k \in Fields |-> NoProc], SrcLogicBindings)]
OnceTopo ==
    [graph |-> RegisterAll(FreshGraph, TopoPairs),
     processors |-> [k \in Fields |-> NoProc]]
BuiltOnce ==
    IF variant = "logic" THEN OnceLogic
    ELSE IF variant = "src_logic" THEN OnceSrcLogic
    ELSE OnceTopo

\* C13: when build_default_graph has run on an engine, once or again, the
\* engine has the nodes, edges and bindings that one run on a fresh engine
\* leaves, no edge is stored twice, and a call that ends has invoked each
\* processor of an affected key exactly once.
C13_BuildIdempotent ==
    builds >= 1 =>
        /\ graph = BuiltOnce.graph
        /\ processors = BuiltOnce.processors
        /\ \A p \in DOMAIN graph.edges : graph.edges[p] <= 1
        /\ pc = "done" =>
              /\ OncePerKey
              /\ Invoked = WithProcessor(Below(graph, updated_key))

\* build_default_graph ran twice and a change of job_title then invoked the
\* five processors below it.
C13_Witness ==
    /\ builds = 2
    /\ pc = "done"
    /\ updated_key = "job_title"
    /\ Len(calls) = 5

\* The edges the default graph is said to hold.
NamedEdges ==
    {<<"job_title", "task_list">>, <<"task_list", "salary_range">>,
     <<"must_have_skills", "salary_range">>,
     <<"remote_work_policy", "desired_publication_channels">>,
     <<"language_requirements", "translation_required">>}

\* C14: after build_default_graph the graph holds the five named edges,
\* every target of an edge has a processor, and a call for the source of a
\* named edge that ends has invoked the target's processor.
C14_DefaultWiring ==
    builds >= 1 =>
        /\ NamedEdges \subseteq EdgeSet(graph)
        /\ \A p \in EdgeSet(graph) : processors[p[2]] # NoProc
        /\ \A p \in NamedEdges :
              (pc = "done" /\ updated_key = p[1]) => p[2] \in Invoked

\* ---- the default processors

\* The state the call was entered with: what the first processor found.
Entered == calls[1][4]

\* The state the i-th processor left.
LeftBy(i) == IF i < Len(calls) THEN calls[i + 1][4] ELSE state

\* The fields the default configuration binds a processor to.
Targets ==
    {"task_list", "must_have_skills", "nice_to_have_skills", "salary_range",
     "desired_publication_channels", "bonus_scheme", "commission_structure",
     "translation_required"}

\* The salary values that stand for "not given yet": nothing, whitespace,
\* and the word competitive in any case with whitespace around it.
PlaceholderSalaries ==
    {Blank, Str(<<" ">>), Str(<<" ", "Competitive">>)}

\* What a user typed into a target field.
UserInput(t, v) ==
    /\ Truthy(v)
    /\ t = "salary_range" => v \notin PlaceholderSalaries

\* C15: a target field that holds user input when notify_change is entered
\* has the same value throughout the call.
C15_NoOverwrite ==
    calls # << >> =>
        \A t \in Targets : UserInput(t, Entered[t]) => state[t] = Entered[t]

\* C16: the salary processor, run because must_have_skills changed, asks
\* the estimator exactly when salary_range holds a placeholder; it then
\* writes the estimate when there is one and writes nothing when the
\* estimator fails or answers with nothing; any other value is kept.
C16_SalaryPlaceholder ==
    /\ (pc = "done" /\ updated_key = "must_have_skills") => "salary_range" \in Invoked
    /\ \A i \in 1..Len(calls) :
          calls[i][1] = "salary_range" =>
              LET before == calls[i][4]["salary_range"]
                  after == LeftBy(i)["salary_range"]
                  answer == calls[i][5]
              IN  IF before \in PlaceholderSalaries
                  THEN /\ answer \in {"text", "empty", "failed"}
                       /\ answer = "text" => after = Suggested
                       /\ answer # "text" => after = before
                  ELSE /\ answer = "none"
                       /\ after = before

\* must_have_skills changed while salary_range held " Competitive", the
\* estimator answered, and the call ended with the estimate in salary_range.
C16_Witness ==
    /\ pc = "done"
    /\ updated_key = "must_have_skills"
    /\ \E i \in 1..Len(calls) :
          /\ calls[i][1] = "salary_range"
          /\ calls[i][4]["salary_range"] = Str(<<" ", "Competitive">>)
          /\ calls[i][5] = "text"
    /\ state["salary_range"] = Suggested

\* The policies that are "hybrid" or "full remote" but for the case of
\* their letters.
PoliciesByCase == {Str(<<"Hybrid">>), Str(<<"Full", " ", "Remote">>)}

\* C17 as stated: with desired_publication_channels empty, a change of
\* remote_work_policy sets the channels exactly when the policy is "hybrid"
\* or "full remote" but for case, and otherwise leaves the state as it was.
C17_ChannelsIffPolicy ==
    (/\ pc = "done"
     /\ updated_key = "remote_work_policy"
     /\ calls # << >>
     /\ Entered["desired_publication_channels"] = Blank) =>
        IF Entered["remote_work_policy"] \in PoliciesByCase
        THEN state["desired_publication_channels"] = RecommendedChannels
        ELSE state = Entered

\* The policies that set the channels: a list or tuple counts as its items
\* joined by blanks, and the processor of src/src/processors/publication.py
\* also drops whitespace around the text.
PoliciesThatTrigger ==
    PoliciesByCase
        \cup {List(<< <<"Full">>, <<"Remote">> >>)}
        \cup (IF variant = "src_logic" THEN {Str(<<" ", "hybrid">>)} ELSE {})

\* C17, amended: with desired_publication_channels empty, a change of
\* remote_work_policy sets the channels exactly when the policy's text
\* (a list's items joined by blanks), lower-cased and, in the src package,
\* stripped, is "hybrid" or "full remote"; otherwise the state is as it was.
C17_ChannelsIffPolicyText ==
    (/\ pc = "done"
     /\ updated_key = "remote_work_policy"
     /\ calls # << >>
     /\ Entered["desired_publication_channels"] = Blank) =>
        IF Entered["remote_work_policy"] \in PoliciesThatTrigger
        THEN state = [Entered EXCEPT !["desired_publication_channels"] = RecommendedChannels]
        ELSE state = Entered

\* A change of remote_work_policy to " hybrid" ended with the channels set
\* (the processor of the src package), and one to "On-site" with nothing set.
C17_Witness ==
    /\ pc = "done"
    /\ updated_key = "remote_work_policy"
    /\ calls # << >>
    /\ Entered["desired_publication_channels"] = Blank
    /\ \/ /\ Entered["remote_work_policy"] = Str(<<" ", "hybrid">>)
          /\ state["desired_publication_channels"] = RecommendedChannels
       \/ /\ Entered["remote_work_policy"] = Str(<<"Hybrid">>)
          /\ variant = "logic"
          /\ state["desired_publication_channels"] = RecommendedChannels

\* ---- wizard navigation

InNotify == pc # "idle" \/ pc' # "idle"

GraphOperation ==
    \/ \E key \in Keys : register_node(key)
    \/ \E p \in Pairs : register_dependency(p[1], p[2])
    \/ \E pairs \in EngineBulk : register_dependencies(pairs)

\* The keys that are a dependent of some key: the targets of the edges.
Dependents(g) == {p[2] : p \in EdgeSet(g)}

\* C21: the graph changes only in register_node, register_dependency and
\* register_dependencies, the registry only in register_processor, which
\* leaves the graph as it is; no step of notify_change changes either; and
\* no processor of a key that is no dependent of any key is ever invoked.
C21_OwnPartOnly ==
    /\ [][ /\ graph' # graph => GraphOperation /\ processors' = processors
           /\ processors' # processors =>
                 /\ \E key \in ProcKeys, func \in Procs : register_processor(key, func)
                 /\ graph' = graph
           /\ InNotify => graph' = graph /\ processors' = processors ]_vars
    /\ [](Invoked \subseteq Dependents(graph))

\* A processor is bound to B, B is no node of the graph, which has nodes,
\* and notify_change("B") has returned without a call.
C21_Witness ==
    /\ processors["B"] # NoProc
    /\ "B" \notin graph.nodes
    /\ graph.nodes # {}
    /\ pc = "done"
    /\ updated_key = "B"
    /\ calls = << >>

\* ------------------------------------------------------------------- C22

\* C22: once build_default_graph has run, in each of the three files, the
\* graph a notify_change starts on has no self-loop and no key below
\* itself, and no notify_change raises the cycle error of the topological
\* sort.
C22_DefaultAcyclic ==
    builds >= 1 =>
        /\ pc = "idle" =>
              /\ \A n \in graph.nodes : ~HasEdge(graph, n, n)
              /\ Acyclic(graph)
        /\ err # "NetworkXUnfeasible"

\* On the default graph of src/trigger_engine.py the sort of a change of
\* job_title has yielded every node and the call has returned.
C22_Witness ==
    /\ variant = "topo"
    /\ builds >= 1
    /\ updated_key = "job_title"
    /\ Cardinality(affected) = 5
    /\ todo = {}
    /\ Returned

\* ------------------------------------------------------------------- C23

\* C23: when a call started by a wizard step has returned, every field the
\* processors changed holds the new value in the session state.
C23_WritesInSession ==
    (Returned /\ calls # << >>) =>
        \A f \in Fields : state[f] # Entered[f] => session_state.fields[f] = state[f]

\* ------------------------------------------------------------------- C27

\* C27: in one session TriggerEngine is made and build_default_graph run at
\* most once; once the session holds an engine it holds that engine, with
\* the graph and the registry left by the build, after every step.
C27_OneEngine ==
    /\ [](/\ builds <= 1
          /\ session_state.trigger_engine = builds
          /\ builds = 1 => /\ graph = OnceLogic.graph
                           /\ processors = OnceLogic.processors)
    /\ [][~Missing(session_state.trigger_engine) =>
             /\ session_state'.trigger_engine = session_state.trigger_engine
             /\ graph' = graph
             /\ processors' = processors]_vars

\* The session's engine was made by the first script run, a later
\* _ensure_engine() returned it and its notify_change invoked a processor.
C27_Witness ==
    /\ builds = 1
    /\ session_state.trigger_engine = 1
    /\ pc = "done"
    /\ calls # << >>

\* ------------------------------------------------------------------- C24

\* C24: whatever wizard_step holds, _clamp_step makes of it an integer in
\* 1..8; and whenever a page is on screen, after any clicks, the step it
\* was drawn for and the stored wizard_step are integers in 1..8.
C24_StepInRange ==
    /\ clamp_step(wizard_step) \in FirstStep..LastStep
    /\ wpc = "page" =>
          /\ step \in FirstStep..LastStep
          /\ wizard_step \in {IntValue(n) : n \in FirstStep..LastStep}

\* The first script run of a session has drawn the last step with no click
\* before it: the session held 8 or more.
C24_Witness ==
    /\ wpc = "page"
    /\ trail = << >>
    /\ step = LastStep
    /\ wizard_step = IntValue(LastStep)

\* ------------------------------------------------------------------- C25

\* A step that is a call of the initialiser.
InitCall == session_state'.inits = session_state.inits + 1

\* C25: after the first call every expected key is in the session; the
\* first call leaves every key that was there with its value; and every
\* later call leaves the whole session state as it was, whatever was
\* changed in between.
C25_InitIdempotent ==
    /\ [](session_state.inits >= 1 =>
             \A k \in ExpectedKeys(session_state.file) :
                 session_state.fields[k] # Absent)
    /\ [][InitCall =>
             /\ \A k \in SessionKeys :
                   session_state.fields[k] # Absent =>
                       session_state'.fields[k] = session_state.fields[k]
             /\ session_state.inits >= 1 =>
                   session_state'.fields = session_state.fields]_vars

\* The initialiser of src/session_state.py ran a second time on a session
\* that had job_title before the first call and got wizard_step changed
\* after it; both values are there.
C25_Witness ==
    /\ session_state.file = "session_state"
    /\ session_state.inits = 2
    /\ session_state.fields["job_title"] = "kept"
    /\ session_state.fields["wizard_step"] = "edited"
    /\ session_state.fields["generated"] = "None"

\* ------------------------------------------------------------------- C26

\* The call has ended with the wrapped function invoked between once and
\* max_attempts times, every attempt but the last having raised, and the
\* last attempt's result returned or its exception raised.
RetryContract ==
    /\ Len(retry.tried) \in 1..retry.max_attempts
    /\ \A i \in 1..(Len(retry.tried) - 1) : retry.tried[i] # "ok"
    /\ retry.pc = "returned" <=> retry.tried[Len(retry.tried)] = "ok"

C28_FailsBeforeProcessors ==
    (variant = "topo" /\ pc = "done" /\ err = "NetworkXUnfeasible") =>
        /\ calls = << >>
        /\ state = EntryState

\* ------------------------------------------------------------------- C29

\* C29: once build_default_graph of src/logic/trigger_engine.py has run,
\* every key with a processor is the target of an edge of the graph.
C29_NoDeadProcessor ==
    (variant = "logic" /\ builds >= 1) =>
        \A k \in Fields : processors[k] # NoProc => k \in Dependents(graph)

\* ------------------------------------------------------------------- C30

\* The invocations in which the suggestion call failed.
FailedCalls == {i \in 1..Len(calls) : calls[i][5] = "failed"}

\* C30: with the default graph and processors of src/logic, no call ends
\* with an exception; a processor whose suggestion call failed has left
\* state as it found it; and a call that has ended has invoked the
\* processor of every affected key, those after the failure too.
C30_FailureContained ==
    variant = "logic" =>
        /\ err = "none"
        /\ \A i \in FailedCalls :
              /\ calls[i][3] = "returned"
              /\ LeftBy(i) = calls[i][4]
        /\ pc = "done" =>
              /\ OncePerKey
              /\ Invoked = WithProcessor(Below(graph, updated_key))

\* The first of the two processors below must_have_skills had its
\* suggestion call fail and the second one was invoked after it.
C30_Witness ==
    /\ variant = "logic"
    /\ pc = "done"
    /\ updated_key = "must_have_skills"
    /\ Len(calls) = 2
    /\ 1 \in FailedCalls
    /\ calls[2][5] = "text"

====
